---- MODULE Spec2Model ----
(***************************************************************************)
(* The session service of claude-api (claude_api_v2.py on top of           *)
(* session_manager.py) as a state machine.  Request handlers are           *)
(* coroutines on one event loop: a handler runs without interruption up to *)
(* its next real suspension point (the child process of execute_claude, a  *)
(* WebSocket send or receive).  Every action below is one such run.        *)
(***************************************************************************)
EXTENDS Integers, Sequences, FiniteSets, TLC

\* ------------------------------------------------------------------ bounds
MaxSessions == 3     \* identifiers the store can allocate
MaxReq == 2          \* request handlers in flight at once
MaxOps == 2          \* requests and workspace removals in one run
MaxObs == 2          \* WebSocket connections opened in one run
MaxV1Ops == 3        \* requests and workspace removals in one run of v1

\* ------------------------------------------------------- values and inputs
NoId == 0
NoTime == 0
NoHandle == "None"

Ids == 1..MaxSessions
BadId == MaxSessions + 1           \* an identifier no session carries
Slots == 1..MaxReq
Conns == 1..MaxObs
Handles == {"h1", "h2"}            \* stems of the external tool's log files
Participants == {"", "anonymous"}
Outcomes == {"spawn_error", "nonzero", "ok"}
StemsOf == Handles \cup {NoHandle}   \* the newest log after a run, if any

NoTransfer ==
    [from_session_id |-> NoId, to_session_id |-> NoId, created_at |-> NoTime,
     status |-> "absent", received_at |-> NoTime]

\* a workspace directory: CLAUDE.md (by the session it names), .session, the
\* transfer document in it, the external tool's private directory .claude,
\* and a file the tool has written at the top level
NoWorkspace ==
    [exists |-> FALSE, claude_md |-> NoId, session_dir |-> FALSE,
     transfer |-> NoTransfer, dot_claude |-> FALSE, work_file |-> FALSE]

VARIABLES
    sessions,            \* session_manager.sessions: id -> record
    disk,                \* the metadata document sessions.json
    ws,                  \* the workspace directory of every identifier
    newest,              \* newest log stem in the external tool's project dir
    active_connections,  \* session key -> list of connections
    conn,                \* every WebSocket connection's handler
    req,                 \* the request handlers
    now,                 \* the wall clock: the next reading of utcnow()
    nops,                \* requests accepted so far
    nextId,              \* the next fresh identifier
    resp,                \* the response of the handler that returned last
    runs_ok              \* history: executor runs that exited 0, per session

vars ==
    <<sessions, disk, ws, newest, active_connections, conn, req, now, nops,
      nextId, resp, runs_ok>>

\* ------------------------------------------------------------ small helpers
RECURSIVE Occurrences(_, _)
Occurrences(seq, x) ==
    IF seq = <<>> THEN 0
    ELSE (IF Head(seq) = x THEN 1 ELSE 0) + Occurrences(Tail(seq), x)

InSeq(seq, x) == \E i \in 1..Len(seq) : seq[i] = x

\* list.remove(x): the first occurrence goes, the rest shifts left
RECURSIVE RemoveFirst(_, _)
RemoveFirst(seq, x) ==
    IF seq = <<>> THEN <<>>
    ELSE IF Head(seq) = x THEN Tail(seq)
    ELSE <<Head(seq)>> \o RemoveFirst(Tail(seq), x)

\* dict assignment and deletion on a function with a finite domain
Put(f, k, v) == [x \in DOMAIN f \cup {k} |-> IF x = k THEN v ELSE f[x]]
Del(f, k) == [x \in DOMAIN f \ {k} |-> f[x]]

\* a handler slot before any request and the fields a request starts with
IdleReq ==
    [op |-> "none", pc |-> "idle", sid |-> NoId, code |-> 0, error |-> FALSE,
     resume |-> NoHandle, cont |-> FALSE, spawned |-> FALSE, base |-> 0,
     lapped |-> 0, idx |-> 0, cur |-> 0, detached |-> FALSE,
     notified |-> <<>>, failed |-> {}, subs0 |-> <<>>, child |-> NoId,
     from |-> NoId, knowledge |-> "", active_only |-> TRUE, tag |-> "",
     body |-> <<>>, count |-> 0]

\* requests are taken by the lowest idle handler
Accept(r) ==
    /\ req[r].pc = "idle"
    /\ \A q \in Slots : q < r => req[q].pc # "idle"
    /\ nops < MaxOps

\* a handler that returns at once: the response code and, for a read, the
\* records it carries (a write answers with the record of sid, as it then is)
Respond(op, sid, code, body) ==
    [IdleReq EXCEPT !.op = op, !.pc = "done", !.sid = sid, !.code = code,
                    !.body = body]

\* handler r goes on as q: suspended again, or returning q as its response
Settle(r, q) ==
    IF q.pc = "done"
    THEN /\ req' = [req EXCEPT ![r] = IdleReq]
         /\ resp' = q
    ELSE /\ req' = [req EXCEPT ![r] = q]
         /\ resp' = resp

\* ------------------------------------------------- session_manager.py
\* the record of a new session with one message counted already
SessionInfo_counted(id, name, description, shared, tags, t) ==
    [id |-> id, name |-> name, description |-> description,
     created_at |-> t, last_accessed |-> t, shared |-> shared,
     tags |-> tags, workspace |-> id, participants |-> <<>>,
     claude_session_id |-> NoHandle, message_count |-> 1,
     tool_usage |-> <<>>, status |-> "active",
     archived_at |-> NoTime, knowledge_received |-> FALSE,
     parent_session |-> NoId, knowledge_transfer |-> "",
     fork_instruction_sent |-> "absent",
     awaiting_knowledge_transfer |-> FALSE]

\* the record create_session builds
SessionInfo(id, name, description, shared, tags, t) ==
    [id |-> id, name |-> name, description |-> description,
     created_at |-> t, last_accessed |-> t, shared |-> shared,
     tags |-> tags, workspace |-> id, participants |-> <<>>,
     claude_session_id |-> NoHandle, message_count |-> 0,
     tool_usage |-> <<>>, status |-> "active",
     \* keys later operations add to the dict; absent until then
     archived_at |-> NoTime, knowledge_received |-> FALSE,
     parent_session |-> NoId, knowledge_transfer |-> "",
     fork_instruction_sent |-> "absent",
     awaiting_knowledge_transfer |-> FALSE]

\* create_session_context: CLAUDE.md naming the session in its registration
\* instruction, and the .session directory with its three documents
create_session_context(w, id) ==
    [w EXCEPT !.exists = TRUE, !.claude_md = id, !.session_dir = TRUE]

\* add_participant's append (the caller saves)
add_participant(ss, sid, participant, t) ==
    IF sid \in DOMAIN ss
    THEN [ss EXCEPT ![sid].participants =
              Append(@, [name |-> participant, role |-> "contributor",
                         joined_at |-> t])]
    ELSE ss

\* archive_session dropping the record's tags as well
archive_session_clearing_tags(ss, sid, t) ==
    IF sid \in DOMAIN ss
    THEN [ss EXCEPT ![sid].status = "archived", ![sid].archived_at = t,
                    ![sid].tags = <<>>]
    ELSE ss

\* archive_session made a toggle
archive_session_toggle(ss, sid, t) ==
    IF sid \in DOMAIN ss
    THEN [ss EXCEPT ![sid].status = IF @ = "active" THEN "archived" ELSE "active",
                    ![sid].archived_at = t]
    ELSE ss

\* archive_session's two assignments
archive_session(ss, sid, t) ==
    IF sid \in DOMAIN ss
    THEN [ss EXCEPT ![sid].status = "archived", ![sid].archived_at = t]
    ELSE ss

\* the records with an identifier in keep, in the dict's insertion order
RECURSIVE Select(_, _, _)
Select(ss, keep, n) ==
    IF n = 0 THEN <<>>
    ELSE Select(ss, keep, n - 1) \o (IF n \in keep THEN <<ss[n]>> ELSE <<>>)

\* list_active_sessions without its filter
list_active_sessions_unfiltered(ss) == Select(ss, DOMAIN ss, MaxSessions)

list_active_sessions(ss) ==
    Select(ss, {i \in DOMAIN ss : ss[i].status = "active"}, MaxSessions)

all_sessions(ss) == Select(ss, DOMAIN ss, MaxSessions)

\* a search by tag that leaves archived records out
search_sessions_active_only(ss, tag) ==
    Select(ss, {i \in DOMAIN ss : /\ InSeq(ss[i].tags, tag)
                                  /\ ss[i].status = "active"}, MaxSessions)

\* search_sessions(tags=[tag]): query is None, so only the tag branch counts
search_sessions(ss, tag) ==
    Select(ss, {i \in DOMAIN ss : InSeq(ss[i].tags, tag)}, MaxSessions)

\* the copy loop without its test for .claude
copy_workspace_every_dir(src, dst) ==
    [dst EXCEPT !.claude_md = IF src.claude_md # NoId THEN src.claude_md ELSE @,
                !.work_file = @ \/ src.work_file,
                !.dot_claude = @ \/ src.dot_claude,
                !.session_dir = @ \/ src.session_dir,
                !.transfer = IF src.session_dir /\ src.transfer.status # "absent"
                             THEN src.transfer ELSE @]

\* the copy loop of clone_session: top-level files (CLAUDE.md) and every
\* directory but .claude (so .session with all it holds) overwrite the
\* destination's
copy_workspace(src, dst) ==
    [dst EXCEPT !.claude_md = IF src.claude_md # NoId THEN src.claude_md ELSE @,
                !.work_file = @ \/ src.work_file,
                !.session_dir = @ \/ src.session_dir,
                !.transfer = IF src.session_dir /\ src.transfer.status # "absent"
                             THEN src.transfer ELSE @]

\* a save that writes nothing: the document stays as it was
save_metadata_skipped(ss) == disk

\* save_metadata: the whole in-memory mapping replaces the document
save_metadata(ss) == ss

\* ------------------------------------------------- claude_api_v2.py
\* execute_claude resuming whenever the record holds a handle, asked or not
ExecStart_resume_unasked(op, sid, cont, ss, w) ==
    [IdleReq EXCEPT
        !.op = op, !.pc = "exec", !.sid = sid, !.cont = cont,
        !.resume = IF sid \in DOMAIN ss THEN ss[sid].claude_session_id
                   ELSE NoHandle,
        !.spawned = w[sid].exists,
        !.base = IF sid \in DOMAIN ss THEN ss[sid].message_count ELSE 0]

\* execute_claude up to the spawn: --resume is added when the caller asks to
\* continue and the record holds a handle; cwd is the workspace, so a child
\* exists only if that directory does
ExecStart(op, sid, cont, ss, w) ==
    [IdleReq EXCEPT
        !.op = op, !.pc = "exec", !.sid = sid, !.cont = cont,
        !.resume = IF cont /\ sid \in DOMAIN ss
                      /\ ss[sid].claude_session_id # NoHandle
                   THEN ss[sid].claude_session_id ELSE NoHandle,
        !.spawned = w[sid].exists,
        !.base = IF sid \in DOMAIN ss THEN ss[sid].message_count ELSE 0]

\* the success branch counting a run twice
record_success_twice(ss, sid, t, stem) ==
    IF sid \in DOMAIN ss
    THEN [ss EXCEPT
            ![sid].last_accessed = t,
            ![sid].message_count = @ + 2,
            ![sid].claude_session_id =
                IF @ = NoHandle /\ stem # NoHandle THEN stem ELSE @]
    ELSE ss

\* the success branch storing a counter of one run instead of adding one to
\* the counter the record holds
record_success_stale(ss, sid, t, stem) ==
    IF sid \in DOMAIN ss
    THEN [ss EXCEPT
            ![sid].last_accessed = t,
            ![sid].message_count = 1,
            ![sid].claude_session_id =
                IF @ = NoHandle /\ stem # NoHandle THEN stem ELSE @]
    ELSE ss

\* execute_claude after an exit status of 0: activity, counter, and the
\* handle taken from the newest log when the record has none
record_success(ss, sid, t, stem) ==
    IF sid \in DOMAIN ss
    THEN [ss EXCEPT
            ![sid].last_accessed = t,
            ![sid].message_count = @ + 1,
            ![sid].claude_session_id =
                IF @ = NoHandle /\ stem # NoHandle THEN stem ELSE @]
    ELSE ss

\* execute_claude updating the record whatever the exit status
execute_claude_unchecked(ss, sid, out, t, stem) ==
    record_success(ss, sid, t, stem)

\* the in-memory mapping when execute_claude returns
execute_claude(ss, sid, out, t, stem) ==
    IF out = "ok" THEN record_success(ss, sid, t, stem) ELSE ss

\* an executor that lets an exception of the spawn through to its caller
execute_claude_result_raising(out) ==
    [raised |-> out = "spawn_error", success |-> out = "ok",
     response |-> out = "ok", error |-> out = "nonzero"]

\* the dict execute_claude returns for an outcome of the child: whether it
\* carries the captured output and the diagnostic text; raised is whether
\* the caller gets an exception instead, which try/except Exception prevents
execute_claude_result(out) ==
    [raised |-> FALSE, success |-> out = "ok",
     response |-> out = "ok", error |-> out # "ok"]

\* the stem of the log a new conversation in workspace sid would write: one
\* no log there carries yet, while the model has stems left
FreshStems(sid) ==
    IF newest[sid] = NoHandle THEN {"h1"}
    ELSE IF newest[sid] = "h1" THEN {"h2"}
    ELSE {}

\* a wait on the child that never returns once the child was spawned
ChildExit_unobserved(r, out, stem) ==
    LET sid == req[r].sid IN
    /\ req[r].pc = "exec"
    /\ ~req[r].spawned
    /\ out = "spawn_error"
    /\ stem = newest[sid]
    /\ UNCHANGED <<newest, ws, now, runs_ok>>

\* the child process ends: its exit, and the newest log of the external
\* tool's project directory afterwards: as before (the tool wrote none where
\* execute_claude looks), the log of the conversation it resumed, or the log
\* of a new conversation
ChildExit(r, out, stem) ==
    LET sid == req[r].sid IN
    /\ req[r].pc = "exec"
    /\ out \in (IF req[r].spawned THEN Outcomes ELSE {"spawn_error"})
    /\ stem \in (IF out # "ok" THEN {newest[sid]}
                 ELSE IF req[r].resume # NoHandle THEN {newest[sid], req[r].resume}
                 ELSE {newest[sid]} \cup FreshStems(sid))
    /\ newest' = [newest EXCEPT ![sid] = stem]
    /\ ws' = ws
    /\ now' = IF out = "ok" /\ sid \in DOMAIN sessions THEN now + 1 ELSE now
    /\ runs_ok' = IF out = "ok" /\ sid \in DOMAIN sessions
                  THEN [runs_ok EXCEPT ![sid] = @ + 1] ELSE runs_ok

\* notify_session_update's loop from its iterator's next() to the next await:
\* the iterator reads the list object it was created on, which a disconnect
\* that deleted the key has left empty
NotifyStep(q, conns) ==
    LET list == IF q.detached \/ q.sid \notin DOMAIN conns
                THEN <<>> ELSE conns[q.sid] IN
    IF q.idx < Len(list)
    THEN [q EXCEPT !.pc = "send_ws", !.cur = list[q.idx + 1], !.idx = q.idx + 1]
    ELSE [q EXCEPT !.pc = "done", !.code = 200, !.cur = 0]

\* send_message from a successful execute_claude: the response, then
\* notify_session_update up to its first send_json
NotifyStart(q, conns) ==
    IF q.sid \in DOMAIN conns
    THEN NotifyStep([q EXCEPT !.subs0 = conns[q.sid]], conns)
    ELSE [q EXCEPT !.pc = "done", !.code = 200]

\* POST /sessions
CreateSession(r, name, description, shared, tags, prompt) ==
    LET id == nextId
        info == SessionInfo(id, name, description, shared, tags, now)
        ss1 == Put(sessions, id, info)
        w1 == [ws EXCEPT ![id] = create_session_context(@, id)]
    IN
    /\ Accept(r)
    /\ nextId <= MaxSessions
    /\ nops' = nops + 1
    /\ nextId' = nextId + 1
    /\ sessions' = ss1
    /\ disk' = save_metadata(ss1)
    /\ ws' = w1
    /\ runs_ok' = Put(runs_ok, id, 0)
    /\ Settle(r, IF prompt THEN ExecStart("create", id, FALSE, ss1, w1)
                 ELSE Respond("create", id, 200, <<>>))
    /\ now' = now + 1
    /\ UNCHANGED <<newest, active_connections, conn>>

CreateExecDone(r, out, stem) ==
    LET sid == req[r].sid
        ss1 == execute_claude(sessions, sid, out, now, stem)
    IN
    /\ req[r].op = "create"
    /\ ChildExit(r, out, stem)
    /\ sessions' = ss1
    /\ disk' = IF out = "ok" THEN save_metadata(ss1) ELSE disk
    /\ Settle(r, [req[r] EXCEPT
                     !.pc = "done",
                     !.code = IF execute_claude_result(out).raised
                              THEN 500 ELSE 200,
                     !.error = ~execute_claude_result(out).success])
    /\ UNCHANGED <<active_connections, conn, nops, nextId>>

\* the test for a known participant never finding one
ParticipantExists_never(s, participant) == FALSE

ParticipantExists(s, participant) ==
    \E i \in 1..Len(s.participants) : s.participants[i].name = participant

\* the two checks and a third one turning archived sessions away
send_precheck_active_only(ss, w, sid) ==
    IF sid \notin DOMAIN ss THEN 404
    ELSE IF ~w[ss[sid].workspace].exists THEN 500
    ELSE IF ss[sid].status # "active" THEN 409
    ELSE 200

\* the two checks refusing one way only
send_precheck_one_refusal(ss, w, sid) ==
    IF sid \notin DOMAIN ss THEN 500
    ELSE IF ~w[ss[sid].workspace].exists THEN 500
    ELSE 200

\* the lookup alone, without the check of the workspace
send_precheck_lookup_only(ss, w, sid) ==
    IF sid \notin DOMAIN ss THEN 404 ELSE 200

\* send_message's two checks: the status it refuses with, or 200 to go on
send_precheck(ss, w, sid) ==
    IF sid \notin DOMAIN ss THEN 404
    ELSE IF ~w[ss[sid].workspace].exists THEN 500
    ELSE 200

\* POST /sessions/{id}/messages up to the spawn of the child
SendMessage(r, sid, participant) ==
    /\ Accept(r)
    /\ nops' = nops + 1
    /\ IF send_precheck(sessions, ws, sid) # 200
       THEN /\ Settle(r, Respond("send", sid,
                                 send_precheck(sessions, ws, sid), <<>>))
            /\ UNCHANGED <<sessions, disk, now>>
       ELSE LET joins == /\ sessions[sid].shared
                         /\ participant # ""
                         /\ ~ParticipantExists(sessions[sid], participant)
                ss1 == IF joins
                       THEN add_participant(sessions, sid, participant, now)
                       ELSE sessions
            IN /\ sessions' = ss1
               /\ disk' = IF joins THEN save_metadata(ss1) ELSE disk
               /\ now' = IF joins THEN now + 1 ELSE now
               /\ Settle(r, ExecStart("send", sid, TRUE, ss1, ws))
    /\ UNCHANGED <<ws, newest, active_connections, conn, nextId, runs_ok>>

\* the sends on sid whose child is running see one more overlapping success
Lap(rq, r, sid, ok) ==
    [q \in Slots |->
        IF ok /\ q # r /\ rq[q].op = "send" /\ rq[q].pc = "exec" /\ rq[q].sid = sid
        THEN [rq[q] EXCEPT !.lapped = @ + 1] ELSE rq[q]]

\* send_message from the child's exit to the first send_json of the notification
SendExecDone(r, out, stem) ==
    LET sid == req[r].sid
        ss1 == execute_claude(sessions, sid, out, now, stem)
        q1 == IF execute_claude_result(out).success
              THEN NotifyStart(req[r], active_connections)
              ELSE [req[r] EXCEPT !.pc = "done", !.code = 500, !.error = TRUE]
    IN
    /\ req[r].op = "send"
    /\ ChildExit(r, out, stem)
    /\ sessions' = ss1
    /\ disk' = IF out = "ok" THEN save_metadata(ss1) ELSE disk
    /\ req' = [Lap(req, r, sid, out = "ok") EXCEPT
                  ![r] = IF q1.pc = "done" THEN IdleReq ELSE q1]
    /\ resp' = IF q1.pc = "done" THEN q1 ELSE resp
    /\ UNCHANGED <<active_connections, conn, nops, nextId>>

\* one send_json of notify_session_update returns or raises; a raise runs the
\* except branch, whose remove raises in turn when the key or the connection
\* is no longer there, and then the loop goes on
NotifyDelivered(r, ok) ==
    LET q == req[r]
        gone == \/ q.sid \notin DOMAIN active_connections
                \/ ~InSeq(active_connections[q.sid], q.cur)
        pruned == [active_connections EXCEPT ![q.sid] = RemoveFirst(@, q.cur)]
    IN
    /\ q.pc = "send_ws"
    /\ IF ok
       THEN /\ Settle(r, NotifyStep([q EXCEPT !.notified = Append(@, q.cur)],
                                    active_connections))
            /\ UNCHANGED active_connections
       ELSE IF gone
       THEN /\ Settle(r, [q EXCEPT !.pc = "done", !.code = 500, !.error = TRUE,
                                   !.failed = @ \cup {q.cur}, !.cur = 0])
            /\ UNCHANGED active_connections
       ELSE /\ active_connections' = pruned
            /\ Settle(r, NotifyStep([q EXCEPT !.failed = @ \cup {q.cur}], pruned))
    /\ UNCHANGED <<sessions, disk, ws, newest, conn, now, nops, nextId, runs_ok>>

\* GET /sessions/{id}
GetSession(r, sid) ==
    /\ Accept(r)
    /\ nops' = nops + 1
    /\ Settle(r, IF sid \in DOMAIN sessions
                 THEN Respond("get", sid, 200, <<sessions[sid]>>)
                 ELSE Respond("get", sid, 404, <<>>))
    /\ UNCHANGED <<sessions, disk, ws, newest, active_connections, conn, now,
                   nextId, runs_ok>>

\* session_manager.get_session_history: the entries of the logs in the
\* external tool's project directory, oldest first (here one entry per log,
\* named by its stem); none for an unknown identifier or an absent directory
get_session_history(ss, nw, sid) ==
    IF sid \notin DOMAIN ss THEN <<>>
    ELSE IF nw[ss[sid].workspace] = NoHandle THEN <<>>
    ELSE IF nw[ss[sid].workspace] = "h1" THEN <<"h1">>
    ELSE <<"h1", "h2">>

\* GET /sessions/{id}/history
GetSessionHistory(r, sid) ==
    LET history == get_session_history(sessions, newest, sid) IN
    /\ Accept(r)
    /\ nops' = nops + 1
    /\ Settle(r, IF history = <<>>
                 THEN Respond("history", sid, 404, <<>>)
                 ELSE Respond("history", sid, 200, history))
    /\ UNCHANGED <<sessions, disk, ws, newest, active_connections, conn, now,
                   nextId, runs_ok>>

\* the listing GET /sessions returns
list_sessions(ss, active_only, tag) ==
    IF tag # "" THEN search_sessions(ss, tag)
    ELSE IF active_only THEN list_active_sessions(ss)
    ELSE all_sessions(ss)

\* GET /sessions
ListSessions(r, active_only, tag) ==
    /\ Accept(r)
    /\ nops' = nops + 1
    /\ Settle(r, [Respond("list", NoId, 200,
                          list_sessions(sessions, active_only, tag))
                    EXCEPT !.active_only = active_only, !.tag = tag,
                           !.count = Len(list_sessions(sessions, active_only,
                                                       tag))])
    /\ UNCHANGED <<sessions, disk, ws, newest, active_connections, conn, now,
                   nextId, runs_ok>>

\* the assignments without the test of shared for None
update_fields_unguarded(s, has, description, tags, shared) ==
    [s EXCEPT !.description = IF "description" \in has THEN description ELSE @,
              !.tags = IF "tags" \in has THEN tags ELSE @,
              !.shared = shared]

\* update_session's three conditional assignments; has holds the fields of
\* the request that are not None
update_fields(s, has, description, tags, shared) ==
    [s EXCEPT !.description = IF "description" \in has THEN description ELSE @,
              !.tags = IF "tags" \in has THEN tags ELSE @,
              !.shared = IF "shared" \in has THEN shared ELSE @]

\* PUT /sessions/{id}
UpdateSession(r, sid, has, description, tags, shared) ==
    /\ Accept(r)
    /\ nops' = nops + 1
    /\ IF sid \notin DOMAIN sessions
       THEN /\ Settle(r, Respond("update", sid, 404, <<>>))
            /\ UNCHANGED <<sessions, disk>>
       ELSE LET s1 == update_fields(sessions[sid], has, description, tags, shared)
                ss1 == [sessions EXCEPT ![sid] = s1]
            IN /\ sessions' = ss1
               /\ disk' = save_metadata(ss1)
               /\ Settle(r, Respond("update", sid, 200, <<>>))
    /\ UNCHANGED <<ws, newest, active_connections, conn, now, nextId, runs_ok>>

\* POST /sessions/{id}/archive: no lookup, the answer is always the same
ArchiveSession(r, sid) ==
    LET ss1 == archive_session(sessions, sid, now) IN
    /\ Accept(r)
    /\ nops' = nops + 1
    /\ sessions' = ss1
    /\ disk' = IF sid \in DOMAIN sessions THEN save_metadata(ss1) ELSE disk
    /\ now' = IF sid \in DOMAIN sessions THEN now + 1 ELSE now
    /\ Settle(r, Respond("archive", sid, 200, <<>>))
    /\ UNCHANGED <<ws, newest, active_connections, conn, nextId, runs_ok>>

\* whether the path of a register request names something in the workspace
MarkerExists(w, marker_file) ==
    /\ w.exists
    /\ marker_file = ".session/state.json" => w.session_dir
    /\ marker_file = "CLAUDE.md" => w.claude_md # NoId
    /\ marker_file \in {".session/state.json", "CLAUDE.md"}

\* POST /sessions/{id}/register-claude-session
RegisterClaudeSession(r, sid, marker_file) ==
    /\ Accept(r)
    /\ nops' = nops + 1
    /\ IF sid \notin DOMAIN sessions
       THEN /\ Settle(r, Respond("register", sid, 404, <<>>))
            /\ UNCHANGED <<sessions, disk>>
       ELSE IF ~MarkerExists(ws[sessions[sid].workspace], marker_file)
       THEN /\ Settle(r, Respond("register", sid, 400, <<>>))
            /\ UNCHANGED <<sessions, disk>>
       ELSE IF newest[sessions[sid].workspace] = NoHandle
       THEN /\ Settle(r, Respond("register", sid, 500, <<>>))
            /\ UNCHANGED <<sessions, disk>>
       ELSE LET ss1 == [sessions EXCEPT ![sid].claude_session_id =
                                            newest[sessions[sid].workspace]]
            IN /\ sessions' = ss1
               /\ disk' = save_metadata(ss1)
               /\ Settle(r, Respond("register", sid, 200, <<>>))
    /\ UNCHANGED <<ws, newest, active_connections, conn, now, nextId, runs_ok>>

\* the new record with the parent's tags as they are
clone_record_same_tags(original, child, new_name, t) ==
    [SessionInfo(child, new_name, "Cloned from " \o original.name,
                 original.shared, original.tags, t)
        EXCEPT !.claude_session_id = original.claude_session_id]

\* the new record taken over from the parent whole, its id included
clone_record_parent_id(original, child, new_name, t) ==
    [original EXCEPT !.name = new_name, !.tags = @ \o <<"cloned">>,
                     !.created_at = t, !.last_accessed = t,
                     !.message_count = 0, !.participants = <<>>]

\* a new record that takes over the parent's counter with its handle
clone_record_counted(original, child, new_name, t) ==
    [SessionInfo(child, new_name, "Cloned from " \o original.name,
                 original.shared, original.tags \o <<"cloned">>, t)
        EXCEPT !.claude_session_id = original.claude_session_id,
               !.message_count = original.message_count]

\* session_manager.clone_session up to its copy loop: the new record, with
\* the parent's handle when it has one
clone_record(original, child, new_name, t) ==
    [SessionInfo(child, new_name, "Cloned from " \o original.name,
                 original.shared, original.tags \o <<"cloned">>, t)
        EXCEPT !.claude_session_id = original.claude_session_id]

\* the transfer document with its two identifiers exchanged
transfer_data_swapped(sid, child, t) ==
    [from_session_id |-> child, to_session_id |-> sid, created_at |-> t,
     status |-> "pending", received_at |-> NoTime]

\* the transfer document clone_session writes into the new workspace
transfer_data(sid, child, t) ==
    [from_session_id |-> sid, to_session_id |-> child, created_at |-> t,
     status |-> "pending", received_at |-> NoTime]

\* the lookup whose ValueError nothing turns into a 404
clone_precheck_uncaught(ss, sid) ==
    IF sid \notin DOMAIN ss THEN 500 ELSE 200

\* session_manager.clone_session's lookup as the route answers it: the
\* ValueError for an unknown source becomes a 404, or 200 to go on
clone_precheck(ss, sid) ==
    IF sid \notin DOMAIN ss THEN 404 ELSE 200

\* POST /sessions/{id}/clone up to the spawn of the fork instruction
CloneSession(r, sid, new_name) ==
    /\ Accept(r)
    /\ nops' = nops + 1
    /\ IF clone_precheck(sessions, sid) # 200
       THEN /\ Settle(r, Respond("clone", sid,
                                 clone_precheck(sessions, sid), <<>>))
            /\ UNCHANGED <<sessions, disk, ws, nextId, runs_ok, now>>
       ELSE LET child == nextId
                original == sessions[sid]
                ss1 == Put(sessions, child,
                           clone_record(original, child, new_name, now))
                w1 == [ws EXCEPT ![child] = create_session_context(@, child)]
                w2 == [w1 EXCEPT ![child] =
                          copy_workspace(ws[original.workspace], @)]
                w3 == [w2 EXCEPT ![child].transfer =
                          transfer_data(sid, child, now)]
            IN /\ nextId <= MaxSessions
               /\ nextId' = nextId + 1
               /\ now' = now + 1
               /\ sessions' = ss1
               /\ disk' = save_metadata(ss1)
               /\ runs_ok' = Put(runs_ok, child, 0)
               /\ IF ~ws[original.workspace].exists
                  THEN \* iterdir raises: not a ValueError, so nothing catches it
                       /\ ws' = w1
                       /\ Settle(r, [Respond("clone", sid, 500, <<>>)
                                       EXCEPT !.child = child, !.error = TRUE])
                  ELSE /\ ws' = w3
                       /\ Settle(r, [ExecStart("clone", sid, TRUE, ss1, w3)
                                       EXCEPT !.child = child])
    /\ UNCHANGED <<newest, active_connections, conn>>

\* clone_session from the child's exit: the two keys set on the new record
CloneExecDone(r, out, stem) ==
    LET sid == req[r].sid
        child == req[r].child
        ss1 == execute_claude(sessions, sid, out, now, stem)
        ss2 == [ss1 EXCEPT
                  ![child].fork_instruction_sent =
                      IF execute_claude_result(out).success
                      THEN "true" ELSE "false",
                  ![child].awaiting_knowledge_transfer = TRUE]
    IN
    /\ req[r].op = "clone"
    /\ ChildExit(r, out, stem)
    /\ sessions' = IF execute_claude_result(out).raised THEN ss1 ELSE ss2
    /\ disk' = IF out = "ok" THEN save_metadata(ss1) ELSE disk
    /\ Settle(r, [req[r] EXCEPT
                     !.pc = "done",
                     !.code = IF execute_claude_result(out).raised
                              THEN 500 ELSE 200,
                     !.error = ~execute_claude_result(out).success])
    /\ UNCHANGED <<active_connections, conn, nops, nextId>>

\* the excerpt receive_knowledge stores
knowledge_excerpt(knowledge) ==
    IF Len(knowledge) > 500 THEN SubSeq(knowledge, 1, 500) \o "..."
    ELSE knowledge

\* transfer_file.exists() for workspace w
Expecting(w) ==
    w.exists /\ w.session_dir /\ w.transfer.status # "absent"

\* the checks without the comparison of the source
receive_precheck_any_source(ss, w, sid, from) ==
    IF sid \notin DOMAIN ss THEN 404 ELSE 200

\* receive_knowledge's checks: the status it refuses with, or 200 to go on
receive_precheck(ss, w, sid, from) ==
    IF sid \notin DOMAIN ss THEN 404
    ELSE IF /\ Expecting(w[ss[sid].workspace])
            /\ w[ss[sid].workspace].transfer.from_session_id # from THEN 403
    ELSE 200

\* POST /sessions/{id}/receive-knowledge up to the spawn of the seeding run
ReceiveKnowledge(r, sid, from, knowledge) ==
    /\ Accept(r)
    /\ nops' = nops + 1
    /\ IF receive_precheck(sessions, ws, sid, from) # 200
       THEN /\ Settle(r, [Respond("receive", sid,
                                  receive_precheck(sessions, ws, sid, from), <<>>)
                            EXCEPT !.from = from])
            /\ UNCHANGED <<ws, now>>
       ELSE LET expecting == Expecting(ws[sessions[sid].workspace])
                w1 == IF expecting
                      THEN [ws EXCEPT ![sid].transfer.status = "received",
                                      ![sid].transfer.received_at = now]
                      ELSE ws
            IN /\ ws' = w1
               /\ now' = IF expecting THEN now + 1 ELSE now
               /\ Settle(r, [ExecStart("receive", sid, FALSE, sessions, w1)
                               EXCEPT !.from = from, !.knowledge = knowledge])
    /\ UNCHANGED <<sessions, disk, newest, active_connections, conn, nextId,
                   runs_ok>>

\* the success branch marking the receipt without the link to the parent
record_knowledge_unlinked(ss, sid, from, knowledge) ==
    [ss EXCEPT ![sid].knowledge_received = TRUE,
               ![sid].knowledge_transfer = knowledge_excerpt(knowledge)]

\* receive_knowledge's success branch: the three fields it sets on the record
record_knowledge(ss, sid, from, knowledge) ==
    [ss EXCEPT ![sid].knowledge_received = TRUE,
               ![sid].parent_session = from,
               ![sid].knowledge_transfer = knowledge_excerpt(knowledge)]

\* receive_knowledge from the child's exit
ReceiveExecDone(r, out, stem) ==
    LET sid == req[r].sid
        ss1 == execute_claude(sessions, sid, out, now, stem)
        ss2 == record_knowledge(ss1, sid, req[r].from, req[r].knowledge)
    IN
    /\ req[r].op = "receive"
    /\ ChildExit(r, out, stem)
    /\ sessions' = IF execute_claude_result(out).success THEN ss2 ELSE ss1
    /\ disk' = IF execute_claude_result(out).success
               THEN save_metadata(ss2) ELSE disk
    /\ Settle(r, IF execute_claude_result(out).success
                 THEN [req[r] EXCEPT !.pc = "done", !.code = 200]
                 ELSE [req[r] EXCEPT !.pc = "done", !.code = 500, !.error = TRUE])
    /\ UNCHANGED <<active_connections, conn, nops, nextId>>

\* WS /sessions/{id}/ws from accept to the first send_json (or to the receive
\* loop when there is no record to send)
Connect(c, sid) ==
    /\ conn[c].st = "new"
    /\ \A d \in Conns : d < c => conn[d].st # "new"
    /\ sid \in DOMAIN sessions \cup {BadId}
    /\ active_connections' =
          IF sid \in DOMAIN active_connections
          THEN [active_connections EXCEPT ![sid] = Append(@, c)]
          ELSE Put(active_connections, sid, <<c>>)
    /\ conn' = [conn EXCEPT ![c] =
                   [st |-> IF sid \in DOMAIN sessions THEN "hello" ELSE "open",
                    sid |-> sid, info |-> 0]]
    /\ UNCHANGED <<sessions, disk, ws, newest, req, now, nops, nextId, resp,
                   runs_ok>>

\* the session_info event is out; the handler waits in receive_text
Hello(c) ==
    /\ conn[c].st = "hello"
    /\ conn' = [conn EXCEPT ![c].st = "open", ![c].info = @ + 1]
    /\ UNCHANGED <<sessions, disk, ws, newest, active_connections, req, now,
                   nops, nextId, resp, runs_ok>>

\* the handler ending without its except branch: the connection stays listed
Disconnect_leaving_list(c) ==
    /\ conn[c].st \in {"hello", "open"}
    /\ conn' = [conn EXCEPT ![c].st = "closed"]
    /\ UNCHANGED <<sessions, disk, ws, newest, active_connections, req, now,
                   nops, nextId, resp, runs_ok>>

\* WebSocketDisconnect: the connection leaves its list and an empty list
\* leaves the dict; a notification iterating that list keeps the old object
Disconnect(c) ==
    LET sid == conn[c].sid
        listed == /\ sid \in DOMAIN active_connections
                  /\ InSeq(active_connections[sid], c)
        rest == RemoveFirst(active_connections[sid], c)
    IN
    /\ conn[c].st \in {"hello", "open"}
    /\ conn' = [conn EXCEPT ![c].st = "closed"]
    /\ IF ~listed
       THEN UNCHANGED <<active_connections, req>>
       ELSE IF rest # <<>>
       THEN /\ active_connections' = [active_connections EXCEPT ![sid] = rest]
            /\ UNCHANGED req
       ELSE /\ active_connections' = Del(active_connections, sid)
            /\ req' = [q \in Slots |->
                         IF req[q].pc = "send_ws" /\ req[q].sid = sid
                         THEN [req[q] EXCEPT !.detached = TRUE] ELSE req[q]]
    /\ UNCHANGED <<sessions, disk, ws, newest, now, nops, nextId, resp, runs_ok>>

\* ------------------------------------------------- claude_api.py (v1)
\* The first service keeps its records in the module's dict sessions, in
\* memory only, and its workspaces under WORKSPACES_DIR; it has no metadata
\* document, no handles and no live-update channel.

\* SessionInfo(session_id, name).to_dict()
SessionInfo_to_dict(id, name, t) ==
    [id |-> id, name |-> name, created_at |-> t, last_used |-> t,
     workspace |-> id]

\* requests of v1 are taken by the lowest idle handler
V1Accept(r) ==
    /\ req[r].pc = "idle"
    /\ \A q \in Slots : q < r => req[q].pc # "idle"
    /\ nops < MaxV1Ops

\* v1 execute_claude before the spawn: CLAUDE.md is written when the
\* workspace has none
create_session_claude_md(w, id) ==
    [w EXCEPT !.claude_md = IF @ = NoId THEN id ELSE @]

\* v1 execute_claude up to the spawn: --continue is passed when the caller
\* asks for it and the workspace holds the tool's directory .claude
V1ExecStart(op, sid, continue_session, w) ==
    [IdleReq EXCEPT
        !.op = op, !.pc = "exec", !.sid = sid,
        !.cont = continue_session /\ w[sid].dot_claude,
        !.spawned = w[sid].exists]

\* v1 POST /sessions
V1CreateSession(r, name, prompt) ==
    LET id == nextId
        info == SessionInfo_to_dict(id, name, now)
        w1 == [ws EXCEPT ![id].exists = TRUE]
        w2 == [w1 EXCEPT ![id] = create_session_claude_md(@, id)]
    IN
    /\ V1Accept(r)
    /\ nextId <= MaxSessions
    /\ nops' = nops + 1
    /\ nextId' = nextId + 1
    /\ now' = now + 1
    /\ sessions' = Put(sessions, id, info)
    /\ ws' = IF prompt THEN w2 ELSE w1
    /\ Settle(r, IF prompt THEN V1ExecStart("create", id, FALSE, w2)
                 ELSE Respond("create", id, 200, <<info>>))
    /\ UNCHANGED <<disk, newest, active_connections, conn, runs_ok>>

\* v1 GET /sessions
V1ListSessions(r) ==
    /\ V1Accept(r)
    /\ nops' = nops + 1
    /\ Settle(r, [Respond("list", NoId, 200, all_sessions(sessions))
                    EXCEPT !.count = Cardinality(DOMAIN sessions)])
    /\ UNCHANGED <<sessions, disk, ws, newest, active_connections, conn, now,
                   nextId, runs_ok>>

\* v1 GET /sessions/{id}
V1GetSession(r, sid) ==
    /\ V1Accept(r)
    /\ nops' = nops + 1
    /\ Settle(r, IF sid \in DOMAIN sessions
                 THEN Respond("get", sid, 200, <<sessions[sid]>>)
                 ELSE Respond("get", sid, 404, <<>>))
    /\ UNCHANGED <<sessions, disk, ws, newest, active_connections, conn, now,
                   nextId, runs_ok>>

\* v1 POST /sessions/{id}/messages up to the spawn of the child
V1SendMessage(r, sid) ==
    /\ V1Accept(r)
    /\ nops' = nops + 1
    /\ IF sid \notin DOMAIN sessions
       THEN /\ Settle(r, Respond("send", sid, 404, <<>>))
            /\ UNCHANGED <<sessions, ws, now>>
       ELSE IF ~ws[sid].exists
       THEN /\ Settle(r, Respond("send", sid, 500, <<>>))
            /\ UNCHANGED <<sessions, ws, now>>
       ELSE LET w1 == [ws EXCEPT ![sid] = create_session_claude_md(@, sid)]
            IN /\ sessions' = [sessions EXCEPT ![sid].last_used = now]
               /\ now' = now + 1
               /\ ws' = w1
               /\ Settle(r, V1ExecStart("send", sid, TRUE, w1))
    /\ UNCHANGED <<disk, newest, active_connections, conn, nextId, runs_ok>>

\* v1 create_session and send_message from the child's exit; a child that
\* exits 0 in a workspace that is still there leaves .claude in it
V1ExecDone(r, out) ==
    LET sid == req[r].sid
        res == execute_claude_result(out)
    IN
    /\ req[r].pc = "exec"
    /\ req[r].op \in {"create", "send"}
    /\ out \in (IF req[r].spawned THEN Outcomes ELSE {"spawn_error"})
    /\ ws' = IF res.success /\ ws[sid].exists
             THEN [ws EXCEPT ![sid].dot_claude = TRUE] ELSE ws
    /\ Settle(r, [req[r] EXCEPT
                     !.pc = "done",
                     !.code = IF req[r].op = "send" /\ ~res.success
                              THEN 500 ELSE 200,
                     !.error = ~res.success])
    /\ UNCHANGED <<sessions, disk, newest, active_connections, conn, now,
                   nops, nextId, runs_ok>>

\* a delete that gives up when the workspace is not there
delete_precheck_needs_workspace(ss, w, sid) ==
    IF sid \notin DOMAIN ss THEN 404
    ELSE IF ~w[sid].exists THEN 500
    ELSE 200

\* v1 delete_session's check: 404 for an identifier the dict does not hold,
\* or 200 to go on, whether the workspace is there or not
delete_precheck(ss, w, sid) ==
    IF sid \notin DOMAIN ss THEN 404 ELSE 200

\* v1 DELETE /sessions/{id}
V1DeleteSession(r, sid) ==
    /\ V1Accept(r)
    /\ nops' = nops + 1
    /\ IF delete_precheck(sessions, ws, sid) # 200
       THEN /\ Settle(r, Respond("delete", sid,
                                 delete_precheck(sessions, ws, sid), <<>>))
            /\ UNCHANGED <<sessions, ws>>
       ELSE /\ ws' = [ws EXCEPT ![sid] = NoWorkspace]
            /\ sessions' = Del(sessions, sid)
            /\ Settle(r, Respond("delete", sid, 200, <<>>))
    /\ UNCHANGED <<disk, newest, active_connections, conn, now, nextId,
                   runs_ok>>

\* ------------------------------------------------------- the environment
\* a workspace under /tmp disappears
RemoveWorkspace(sid) ==
    /\ sid \in DOMAIN sessions
    /\ ws[sid].exists
    /\ nops < MaxOps
    /\ nops' = nops + 1
    /\ ws' = [ws EXCEPT ![sid] = NoWorkspace]
    /\ UNCHANGED <<sessions, disk, newest, active_connections, conn, req, now,
                   nextId, resp, runs_ok>>

\* ------------------------------------------------------ the specification
\* a session an earlier run of the service left in sessions.json: created
\* without a prompt and, if ran, sent one message whose log was discovered
Stored(shared, ran) ==
    LET info == SessionInfo(1, "T", "", shared, <<"x">>, 1) IN
    IF ran
    THEN [info EXCEPT !.last_accessed = 2, !.message_count = 1,
                      !.claude_session_id = "h1"]
    ELSE info

\* the workspace create_session made for session id; if the tool ran in it,
\* the tool's private directory and a file it wrote are there as well
UsedWorkspace(id, ran) ==
    [create_session_context(NoWorkspace, id)
        EXCEPT !.dot_claude = ran, !.work_file = ran]

\* ClaudeSessionManager(): load_metadata reads sessions.json, or starts with
\* an empty mapping when there is none; no request yet
InitEmpty ==
    /\ sessions = <<>>
    /\ disk = <<>>
    /\ ws = [i \in Ids |-> NoWorkspace]
    /\ newest = [i \in Ids |-> NoHandle]
    /\ now = 1
    /\ nextId = 1
    /\ runs_ok = <<>>

Loaded(shared, ran) ==
        /\ sessions = <<Stored(shared, ran)>>
        /\ disk = sessions
        /\ ws = [i \in Ids |-> IF i = 1 THEN UsedWorkspace(1, ran)
                               ELSE NoWorkspace]
        /\ newest = [i \in Ids |-> IF i = 1 /\ ran THEN "h1" ELSE NoHandle]
        /\ now = 3
        /\ nextId = 2
        /\ runs_ok = <<sessions[1].message_count>>

InitLoaded == \E shared \in BOOLEAN : Loaded(shared, FALSE)

\* nothing connected, nothing in flight
InitService ==
    /\ active_connections = <<>>
    /\ conn = [c \in Conns |-> [st |-> "new", sid |-> NoId, info |-> 0]]
    /\ req = [r \in Slots |-> IdleReq]
    /\ nops = 0
    /\ resp = IdleReq

Init == (InitEmpty \/ InitLoaded) /\ InitService

Targets == DOMAIN sessions \cup {BadId}

\* the requests of the service without its live-update channel
Next ==
    \/ \E r \in Slots, shared \in BOOLEAN, prompt \in BOOLEAN :
          CreateSession(r, "T", "", shared, <<"x">>, prompt)
    \/ \E r \in Slots, sid \in Targets, p \in Participants :
          SendMessage(r, sid, p)
    \/ \E r \in Slots, sid \in Targets : GetSession(r, sid)
    \/ \E r \in Slots, sid \in Targets : GetSessionHistory(r, sid)
    \/ \E r \in Slots, a \in BOOLEAN, tag \in {"", "x"} : ListSessions(r, a, tag)
    \/ \E r \in Slots, sid \in Targets,
          has \in SUBSET {"description", "tags", "shared"}, shared \in BOOLEAN :
          UpdateSession(r, sid, has, "d", <<"y">>, shared)
    \/ \E r \in Slots, sid \in Targets : ArchiveSession(r, sid)
    \/ \E r \in Slots, sid \in Targets, mf \in {"CLAUDE.md", "absent.txt"} :
          RegisterClaudeSession(r, sid, mf)
    \/ \E r \in Slots, sid \in Targets : CloneSession(r, sid, "B-fork")
    \/ \E r \in Slots, sid \in Targets, from \in Targets, k \in {"k"} :
          ReceiveKnowledge(r, sid, from, k)
    \/ \E r \in Slots, out \in Outcomes, stem \in Handles \cup {NoHandle} :
          \/ CreateExecDone(r, out, stem)
          \/ SendExecDone(r, out, stem)
          \/ CloneExecDone(r, out, stem)
          \/ ReceiveExecDone(r, out, stem)
    \/ \E sid \in Ids : RemoveWorkspace(sid)

Spec == Init /\ [][Next]_vars

\* the live-update channel and the sends that feed it, on a loaded store
\* whose external tool leaves no log to discover
InitWs == InitLoaded /\ InitService

NextWs ==
    \/ \E r \in Slots, sid \in Targets : SendMessage(r, sid, "anonymous")
    \/ \E r \in Slots, out \in Outcomes : SendExecDone(r, out, NoHandle)
    \/ \E r \in Slots, ok \in BOOLEAN : NotifyDelivered(r, ok)
    \/ \E c \in Conns, sid \in Targets : Connect(c, sid)
    \/ \E c \in Conns : Hello(c) \/ Disconnect(c)

SpecWs == InitWs /\ [][NextWs]_vars

\* sessions.json and the workspaces as an earlier run of the service left
\* them after it created session 1, sent it a message if ran, and cloned it
\* into session 2 at time 3; the fork instruction succeeded if ran.  The two
\* keys clone_session sets on the child after its last save are not in the
\* document, so they are not in the mapping loaded from it.
LoadedFork(ran) ==
    LET parent == Stored(FALSE, ran)
        child == clone_record(parent, 2, "B-fork", 3)
        ss == <<parent, child>>
        w1 == UsedWorkspace(1, ran)
        w2 == [copy_workspace(w1, create_session_context(NoWorkspace, 2))
                 EXCEPT !.transfer = transfer_data(1, 2, 3)]
    IN
    /\ sessions = IF ran THEN record_success(ss, 1, 4, NoHandle) ELSE ss
    /\ disk = sessions
    /\ ws = [i \in Ids |-> IF i = 1 THEN w1 ELSE IF i = 2 THEN w2
                           ELSE NoWorkspace]
    /\ newest = [i \in Ids |-> IF i = 1 /\ ran THEN "h1" ELSE NoHandle]
    /\ now = 5
    /\ nextId = 3
    /\ runs_ok = <<sessions[1].message_count, 0>>

\* knowledge texts around the length receive_knowledge cuts at
RECURSIVE Repeat(_, _)
Repeat(text, n) == IF n = 0 THEN "" ELSE text \o Repeat(text, n - 1)

\* the longest text kept whole, and the shortest one cut
FullText == Repeat("0123456789", 50)
LongText == FullText \o "!"
Knowledge == {FullText, LongText}

\* cloning and knowledge transfer, on a store that holds a session that ran
\* or a parent with its clone
InitFork ==
    /\ \/ Loaded(FALSE, TRUE)
       \/ \E ran \in BOOLEAN : LoadedFork(ran)
    /\ InitService

NextFork ==
    \/ \E r \in Slots, sid \in Targets : SendMessage(r, sid, "anonymous")
    \/ \E r \in Slots, sid \in Targets :
          UpdateSession(r, sid, {"tags"}, "d", <<"y">>, FALSE)
    \/ \E r \in Slots, sid \in Targets :
          RegisterClaudeSession(r, sid, "CLAUDE.md")
    \/ \E r \in Slots, sid \in Targets : CloneSession(r, sid, "B-fork")
    \/ \E r \in Slots, sid \in Targets, from \in Targets, k \in Knowledge :
          ReceiveKnowledge(r, sid, from, k)
    \/ \E r \in Slots, out \in Outcomes, stem \in Handles \cup {NoHandle} :
          \/ SendExecDone(r, out, stem)
          \/ CloneExecDone(r, out, stem)
          \/ ReceiveExecDone(r, out, stem)

SpecFork == InitFork /\ [][NextFork]_vars

\* the four requests that run the external tool, with one observer on the
\* live-update channel, on a store that holds one session or a parent with
\* its clone
InitLive == (Loaded(FALSE, FALSE) \/ LoadedFork(TRUE)) /\ InitService

NextLive ==
    \/ \E r \in Slots : CreateSession(r, "T", "", FALSE, <<"x">>, TRUE)
    \/ \E r \in Slots, sid \in Targets : SendMessage(r, sid, "anonymous")
    \/ \E r \in Slots, sid \in Targets : CloneSession(r, sid, "B-fork")
    \/ \E r \in Slots, sid \in Targets, from \in Targets :
          ReceiveKnowledge(r, sid, from, FullText)
    \/ \E r \in Slots, out \in Outcomes, stem \in StemsOf :
          \/ CreateExecDone(r, out, stem)
          \/ SendExecDone(r, out, stem)
          \/ CloneExecDone(r, out, stem)
          \/ ReceiveExecDone(r, out, stem)
    \/ \E r \in Slots, ok \in BOOLEAN : NotifyDelivered(r, ok)
    \/ \E sid \in DOMAIN sessions : Connect(1, sid)
    \/ Hello(1) \/ Disconnect(1)

\* handler r resumes when its child has exited, or at once when the spawn
\* raised
Resumed(r) ==
    \E out \in Outcomes, stem \in StemsOf :
        \/ CreateExecDone(r, out, stem)
        \/ SendExecDone(r, out, stem)
        \/ CloneExecDone(r, out, stem)
        \/ ReceiveExecDone(r, out, stem)

\* every child exits, and every send_json of a notification returns or raises
Fairness ==
    \A r \in Slots :
        /\ WF_vars(Resumed(r))
        /\ WF_vars(\E ok \in BOOLEAN : NotifyDelivered(r, ok))

SpecLive == InitLive /\ [][NextLive]_vars /\ Fairness

\* the first service: started with an empty dict, asked about identifiers it
\* has handed out, deleted ones included, and about one it never did
InitV1 == InitEmpty /\ InitService

V1Targets == 1..(nextId - 1) \cup {BadId}

NextV1 ==
    \/ \E r \in Slots, prompt \in BOOLEAN : V1CreateSession(r, "T", prompt)
    \/ \E r \in Slots : V1ListSessions(r)
    \/ \E r \in Slots, sid \in V1Targets : V1GetSession(r, sid)
    \/ \E r \in Slots, sid \in V1Targets : V1SendMessage(r, sid)
    \/ \E r \in Slots, out \in Outcomes : V1ExecDone(r, out)
    \/ \E r \in Slots, sid \in V1Targets : V1DeleteSession(r, sid)
    \/ \E sid \in Ids : RemoveWorkspace(sid)

SpecV1 == InitV1 /\ [][NextV1]_vars

\* ------------------------------------------------------------- properties
\* handler r's child exits 0 in this step
RunSucceeds(r) ==
    \E stem \in StemsOf :
        \/ CreateExecDone(r, "ok", stem)
        \/ SendExecDone(r, "ok", stem)
        \/ CloneExecDone(r, "ok", stem)
        \/ ReceiveExecDone(r, "ok", stem)

\* C1: a record's message_count never decreases; a step adds exactly 1 to it
\* when it is the successful exit of an executor run against that session
\* (of a send, a create with a prompt, a clone's fork instruction on the
\* parent, a receive_knowledge) and 0 in every other step.
C1_CountsSuccessfulRuns ==
    [][\A s \in DOMAIN sessions :
          /\ s \in DOMAIN sessions'
          /\ sessions'[s].message_count - sessions[s].message_count =
                (IF \E r \in Slots : req[r].sid = s /\ RunSucceeds(r)
                 THEN 1 ELSE 0)]_vars

\* a clone answered after its fork instruction ran on the parent and counted
C1_Witness ==
    /\ resp.op = "clone" /\ resp.code = 200 /\ ~resp.error
    /\ sessions[resp.sid].message_count = resp.base + 1
    /\ sessions[resp.child].message_count = 0

\* handler r's child, run for a send, fails in this step
SendRunFails(r) ==
    \E out \in {"spawn_error", "nonzero"}, stem \in StemsOf :
        SendExecDone(r, out, stem)

\* C2: when the executor run of a send fails (non-zero exit, or an exception
\* while spawning), the send answers with an error, the record's
\* message_count and last_accessed are what they were when the send arrived,
\* and no observer is sent an event.
C2_FailedSendLeavesCounters ==
    [][/\ \A r \in Slots :
          SendRunFails(r) =>
              /\ resp'.op = "send" /\ resp'.sid = req[r].sid
              /\ resp'.code = 500 /\ resp'.error
              /\ resp'.notified = <<>>
              /\ req'[r].pc = "idle"
              /\ sessions'[req[r].sid].message_count =
                     sessions[req[r].sid].message_count
              /\ sessions'[req[r].sid].last_accessed =
                     sessions[req[r].sid].last_accessed
              /\ disk' = disk
       /\ \A r \in Slots, sid \in Targets, p \in Participants :
             SendMessage(r, sid, p) =>
                \A s \in DOMAIN sessions :
                   /\ sessions'[s].message_count = sessions[s].message_count
                   /\ sessions'[s].last_accessed = sessions[s].last_accessed]_vars

\* a send failed in its executor run while its session had an observer
C2_Witness ==
    /\ resp.op = "send" /\ resp.code = 500 /\ resp.error
    /\ resp.sid \in DOMAIN active_connections
    /\ sessions[resp.sid].message_count = resp.base

\* a send answered with success after another send on the same session
\* succeeded while its own child was running
OverlappedSend ==
    resp.op = "send" /\ resp.code = 200 /\ resp.lapped >= 1

\* C3 as claimed: two overlapping sends on one session, both successful,
\* leave message_count, in memory or in the document, less than 2 above what
\* the later one found.
C3_OverlapLosesUpdate ==
    OverlappedSend =>
        \/ sessions[resp.sid].message_count < resp.base + 2
        \/ disk[resp.sid].message_count < resp.base + 2

\* C3: overlapping sends lose no update: when a send answers with success,
\* message_count, in memory and in the document, is at least what the send
\* found plus one for itself plus one for every send on the same session that
\* succeeded while its child was running.
C3_NoLostUpdate ==
    (resp.op = "send" /\ resp.code = 200) =>
        /\ sessions[resp.sid].message_count >= resp.base + 1 + resp.lapped
        /\ disk[resp.sid].message_count >= resp.base + 1 + resp.lapped

C3_Witness ==
    /\ OverlappedSend
    /\ sessions[resp.sid].message_count = resp.base + 2
    /\ disk[resp.sid].message_count = resp.base + 2

\* C4: a record's status changes only from active to archived and only in an
\* archive of that session; no other operation changes it, and no record
\* leaves the store.
C4_StatusOneWay ==
    [][\A s \in DOMAIN sessions :
          /\ s \in DOMAIN sessions'
          /\ sessions'[s].status # sessions[s].status =>
                /\ sessions[s].status = "active"
                /\ sessions'[s].status = "archived"
                /\ \E r \in Slots : ArchiveSession(r, s)]_vars

\* an archived session took another operation and is still archived
C4_Witness ==
    /\ resp.op \in {"update", "send", "clone", "receive", "register"}
    /\ resp.sid \in DOMAIN sessions
    /\ sessions[resp.sid].status = "archived"

Records(seq) == {seq[i] : i \in 1..Len(seq)}

\* C5: the default listing (active_only, no tag) returns exactly the records
\* whose status is active, each once; an archived record stays in the store,
\* is returned by get, and is in the listing with active_only false.
C5_ListingAndRetention ==
    [][/\ \A r \in Slots :
            ListSessions(r, TRUE, "") =>
               /\ Records(resp'.body) =
                     {sessions[s] : s \in {i \in DOMAIN sessions :
                                             sessions[i].status = "active"}}
               /\ Len(resp'.body) = Cardinality(Records(resp'.body))
       /\ \A s \in DOMAIN sessions :
            sessions[s].status = "archived" =>
               /\ s \in DOMAIN sessions'
               /\ \A r \in Slots :
                     GetSession(r, s) =>
                        resp'.code = 200 /\ resp'.body = <<sessions[s]>>
               /\ \A r \in Slots :
                     ListSessions(r, FALSE, "") =>
                        sessions[s] \in Records(resp'.body)]_vars

\* the default listing answered while the store held an archived record
C5_Witness ==
    /\ resp.op = "list" /\ resp.active_only /\ resp.tag = ""
    /\ \E s \in DOMAIN sessions :
          /\ sessions[s].status = "archived"
          /\ sessions[s] \notin Records(resp.body)
          /\ nops = MaxOps

\* an observer that was connected and listening all along
Listening(c) == conn[c].st = "open"

\* C6 as claimed: when a send answers with success, every observer that was
\* in the session's list when the run succeeded, whose own delivery did not
\* fail and who is still connected, was sent exactly one event, and no
\* observer of another session was sent any.
C6_EveryObserverNotifiedOnce ==
    (resp.op = "send" /\ resp.code = 200) =>
        /\ \A c \in Records(resp.subs0) :
              (c \notin resp.failed /\ Listening(c)) =>
                  Occurrences(resp.notified, c) = 1
        /\ \A c \in Conns :
              (conn[c].st # "new" /\ conn[c].sid # resp.sid) =>
                  Occurrences(resp.notified, c) = 0

\* C7 as claimed: a send whose notification met a failed delivery still
\* answers with success, and the observers whose delivery failed are in no
\* list of that session afterwards.
C7_FailedDeliveryPrunedSendSucceeds ==
    (resp.op = "send" /\ resp.failed # {}) =>
        /\ resp.code = 200
        /\ \A c \in resp.failed :
              resp.sid \in DOMAIN active_connections =>
                  ~InSeq(active_connections[resp.sid], c)

\* C8: a send naming an identifier the store does not hold answers 404,
\* starts no child process, and leaves the store (in memory and on disk) and
\* the observer lists as they were.
C8_SendUnknownId ==
    [][\A r \in Slots, sid \in Targets, p \in Participants :
          (SendMessage(r, sid, p) /\ sid \notin DOMAIN sessions) =>
              /\ resp'.op = "send" /\ resp'.sid = sid /\ resp'.code = 404
              /\ req' = req
              /\ sessions' = sessions /\ disk' = disk
              /\ runs_ok' = runs_ok
              /\ active_connections' = active_connections]_vars

\* a send to an unknown identifier was refused while observers were listed
C8_Witness ==
    /\ resp.op = "send" /\ resp.code = 404
    /\ resp.sid \notin DOMAIN sessions
    /\ active_connections # <<>>

\* C9: a send on a session whose workspace directory is missing answers 500,
\* starts no child process, and leaves the store as it was: message_count
\* and participants unchanged, whether or not the session is shared and the
\* participant new.
C9_SendMissingWorkspace ==
    [][\A r \in Slots, sid \in DOMAIN sessions, p \in Participants :
          (SendMessage(r, sid, p) /\ ~ws[sessions[sid].workspace].exists) =>
              /\ resp'.op = "send" /\ resp'.sid = sid /\ resp'.code = 500
              /\ req' = req
              /\ runs_ok' = runs_ok
              /\ sessions'[sid].message_count = sessions[sid].message_count
              /\ sessions'[sid].participants = sessions[sid].participants
              /\ sessions' = sessions /\ disk' = disk]_vars

\* a shared session without participants lost its workspace and was sent a
\* message: refused before any run, nobody joined
C9_Witness ==
    /\ resp.op = "send" /\ resp.code = 500 /\ ~resp.error
    /\ resp.sid \in DOMAIN sessions
    /\ ~ws[sessions[resp.sid].workspace].exists
    /\ sessions[resp.sid].shared
    /\ sessions[resp.sid].participants = <<>>

\* the value an update request carries for a field
Given(f, description, tags, shared) ==
    CASE f = "description" -> description
      [] f = "tags" -> tags
      [] f = "shared" -> shared

\* C10: an update sets exactly the fields the request carries to the values
\* it carries (none when it carries none), leaves every other field of the
\* record and every other record as they were, and answers 200; for an
\* identifier the store does not hold it answers 404 and changes nothing.
C10_UpdateFrame ==
    [][resp'.op = "update" =>
       \A r \in Slots, sid \in {resp'.sid},
          has \in SUBSET {"description", "tags", "shared"}, shared \in BOOLEAN :
          UpdateSession(r, sid, has, "d", <<"y">>, shared) =>
              IF sid \in DOMAIN sessions
              THEN /\ resp'.code = 200
                   /\ DOMAIN sessions' = DOMAIN sessions
                   /\ \A f \in DOMAIN sessions[sid] :
                         sessions'[sid][f] =
                            IF f \in has THEN Given(f, "d", <<"y">>, shared)
                            ELSE sessions[sid][f]
                   /\ \A s \in DOMAIN sessions \ {sid} :
                         sessions'[s] = sessions[s]
                   /\ disk' = sessions'
              ELSE /\ resp'.code = 404
                   /\ sessions' = sessions /\ disk' = disk]_vars

\* an update carrying only a description was applied to a record that keeps
\* its tags
C10_Witness ==
    /\ resp.op = "update" /\ resp.code = 200
    /\ sessions[resp.sid].description = "d"
    /\ sessions[resp.sid].tags = <<"x">>

\* a step that is a create, or a clone of a session the store holds
IsCreation ==
    \/ \E r \in Slots, shared \in BOOLEAN, prompt \in BOOLEAN :
          CreateSession(r, "T", "", shared, <<"x">>, prompt)
    \/ \E r \in Slots, sid \in DOMAIN sessions : CloneSession(r, sid, "B-fork")

\* C11: every record is stored under its own id; every create and every
\* clone adds one record under a key no record had (so no two calls, one
\* after the other or interleaved, yield the same identifier); no step
\* changes the id of a record, moves it to another key or removes it.
C11_IdentifiersUniqueAndFixed ==
    [][/\ \A s \in DOMAIN sessions :
             s \in DOMAIN sessions' /\ sessions'[s].id = sessions[s].id
       /\ \A s \in DOMAIN sessions' : sessions'[s].id = s
       /\ IF IsCreation
          THEN Cardinality(DOMAIN sessions') = Cardinality(DOMAIN sessions) + 1
          ELSE DOMAIN sessions' = DOMAIN sessions]_vars

\* a create returned while an earlier create was still running its prompt:
\* two records, each under its own identifier
C11_Witness ==
    /\ \E r \in Slots :
          /\ req[r].op = "create" /\ req[r].pc = "exec"
          /\ resp.op = "create" /\ resp.sid # req[r].sid
          /\ {resp.sid, req[r].sid} \subseteq DOMAIN sessions
    /\ \A s \in DOMAIN sessions : sessions[s].id = s

\* C12 as claimed: once a record's external conversation handle is set
\* (discovered after a run, registered, or seeded by clone), no step changes
\* it to another value.
C12_HandleSetOnce ==
    [][\A s \in DOMAIN sessions :
          sessions[s].claude_session_id # NoHandle =>
              sessions'[s].claude_session_id = sessions[s].claude_session_id]_vars

\* handler r, a clone, returns in this step
CloneReturns(r) ==
    /\ req[r].op = "clone" /\ req[r].pc = "exec" /\ req'[r].pc = "idle"
    /\ \E out \in Outcomes, stem \in StemsOf : CloneExecDone(r, out, stem)

\* C13 as claimed: when a clone of A returns, the child B holds the handle A
\* had when the clone was made (none if A had none), and B's workspace holds
\* a transfer record naming A and B with status pending.
C13_CloneReturnsPendingTransfer ==
    [][\A r \in Slots :
          CloneReturns(r) =>
              /\ sessions'[req[r].child].claude_session_id = req[r].resume
              /\ ws'[req[r].child].transfer.from_session_id = req[r].sid
              /\ ws'[req[r].child].transfer.to_session_id = req[r].child
              /\ ws'[req[r].child].transfer.status = "pending"]_vars

\* C13: the step of a clone of A that creates the child B gives B the handle
\* A holds (none if A has none) and writes into B's workspace a transfer
\* record naming A and B with status pending; when the clone returns, the
\* record still names A and B, and its status is pending or, a
\* receive_knowledge on B having been accepted while the fork instruction
\* ran, received.
C13_CloneSeedsHandleAndTransfer ==
    [][/\ \A r \in Slots, sid \in DOMAIN sessions :
            (CloneSession(r, sid, "B-fork") /\ ws[sessions[sid].workspace].exists) =>
               /\ nextId \in DOMAIN sessions' \ DOMAIN sessions
               /\ sessions'[nextId].claude_session_id =
                     sessions[sid].claude_session_id
               /\ ws'[nextId].transfer =
                     [from_session_id |-> sid, to_session_id |-> nextId,
                      created_at |-> now, status |-> "pending",
                      received_at |-> NoTime]
       /\ \A r \in Slots :
            CloneReturns(r) =>
               /\ ws'[req[r].child].transfer.from_session_id = req[r].sid
               /\ ws'[req[r].child].transfer.to_session_id = req[r].child
               /\ ws'[req[r].child].transfer.status \in {"pending", "received"}]_vars

\* a clone of a session with a handle returned: the child holds that handle
\* and its transfer record is pending
C13_Witness ==
    /\ resp.op = "clone" /\ resp.code = 200
    /\ resp.resume # NoHandle
    /\ sessions[resp.child].claude_session_id = resp.resume
    /\ ws[resp.child].transfer.from_session_id = resp.sid
    /\ ws[resp.child].transfer.status = "pending"

\* C14 as claimed: after a clone has returned, the CLAUDE.md of the child's
\* workspace names the child's identifier in its registration instruction.
C14_ChildKeepsOwnContext ==
    (resp.op = "clone" /\ resp.code = 200) =>
        ws[resp.child].claude_md = resp.child

\* the entries a workspace directory can hold
Entries ==
    {"CLAUDE.md", "work_file", ".session", ".session/awaiting_transfer.json",
     ".claude"}

\* whether workspace w holds entry e
Holds(w, e) ==
    /\ w.exists
    /\ CASE e = "CLAUDE.md" -> w.claude_md # NoId
         [] e = "work_file" -> w.work_file
         [] e = ".session" -> w.session_dir
         [] e = ".session/awaiting_transfer.json" ->
                w.session_dir /\ w.transfer.status # "absent"
         [] e = ".claude" -> w.dot_claude

\* C15: the step of a clone that creates the child leaves in the child's
\* workspace every file and subdirectory the parent's workspace holds at
\* that moment, except the external tool's private directory .claude, which
\* the child's workspace does not hold; the same is true when the clone
\* returns.
C15_CloneCopiesAllButPrivate ==
    [][/\ \A r \in Slots, sid \in DOMAIN sessions :
            (CloneSession(r, sid, "B-fork") /\ ws[sessions[sid].workspace].exists) =>
               /\ \A e \in Entries \ {".claude"} :
                     Holds(ws[sessions[sid].workspace], e) => Holds(ws'[nextId], e)
               /\ ~Holds(ws'[nextId], ".claude")
       /\ \A r \in Slots :
            CloneReturns(r) =>
               /\ \A e \in Entries \ {".claude"} :
                     Holds(ws[req[r].sid], e) => Holds(ws'[req[r].child], e)
               /\ ~Holds(ws'[req[r].child], ".claude")]_vars

\* a clone returned whose parent's workspace holds .claude and a file the
\* tool wrote: the child's holds the file, not .claude
C15_Witness ==
    /\ resp.op = "clone" /\ resp.code = 200
    /\ Holds(ws[resp.sid], ".claude") /\ Holds(ws[resp.sid], "work_file")
    /\ Holds(ws[resp.child], "work_file")
    /\ ~Holds(ws[resp.child], ".claude")

\* C16: the step of a clone that creates the child gives it the parent's
\* tags followed by "cloned" and leaves the parent's tags as they are, also
\* when the parent is a clone itself; afterwards the tags of a record change
\* only in an update of that record that carries tags.
C16_CloneTags ==
    [][/\ \A r \in Slots, sid \in DOMAIN sessions :
            CloneSession(r, sid, "B-fork") =>
               /\ sessions'[nextId].tags = sessions[sid].tags \o <<"cloned">>
               /\ sessions'[sid].tags = sessions[sid].tags
       /\ \A s \in DOMAIN sessions :
            sessions'[s].tags # sessions[s].tags =>
               \E r \in Slots, has \in SUBSET {"description", "tags", "shared"},
                  shared \in BOOLEAN :
                  /\ "tags" \in has
                  /\ UpdateSession(r, s, has, "d", <<"y">>, shared)]_vars

\* a clone of a clone returned: the parent keeps its tags, the child has
\* them with one more "cloned"
C16_Witness ==
    /\ resp.op = "clone" /\ resp.code = 200
    /\ sessions[resp.sid].tags = <<"x", "cloned">>
    /\ sessions[resp.child].tags = <<"x", "cloned", "cloned">>
\* C17: a knowledge delivery to a session whose workspace holds a transfer
\* record naming another source than the request does is refused with 403;
\* no process is started, and the transfer record, the records of the
\* sessions and their saved copies stay as they were.
C17_WrongSourceForbidden ==
    [][resp'.op = "receive" =>
         \A r \in Slots, sid \in {resp'.sid}, from \in Targets, k \in Knowledge :
            /\ ReceiveKnowledge(r, sid, from, k)
            /\ sid \in DOMAIN sessions
            /\ Holds(ws[sessions[sid].workspace], ".session/awaiting_transfer.json")
            /\ ws[sessions[sid].workspace].transfer.from_session_id # from
            => /\ resp'.code = 403
               /\ req' = req
               /\ ws' = ws
               /\ sessions' = sessions
               /\ disk' = disk
               /\ runs_ok' = runs_ok]_vars

\* a refused delivery to the fork, whose transfer record is still pending
C17_Witness ==
    /\ resp.op = "receive" /\ resp.code = 403
    /\ resp.sid \in DOMAIN sessions
    /\ ws[resp.sid].transfer.status = "pending"
    /\ ws[resp.sid].transfer.from_session_id # resp.from
    /\ ~sessions[resp.sid].knowledge_received

\* C18: a knowledge delivery to a fork whose transfer record is pending and
\* names the request's source sets the record's status to received and
\* starts the seeding run; when that run succeeds the fork's record gets the
\* source as parent_session and knowledge_received true, in memory and saved.
C18_MatchingSourceReceived ==
    [][/\ \A r \in Slots :
            req[r].pc = "idle" /\ req'[r].op = "receive" =>
            \A sid \in {req'[r].sid}, from \in {req'[r].from},
               k \in {req'[r].knowledge} :
               /\ ReceiveKnowledge(r, sid, from, k)
               /\ Holds(ws[sessions[sid].workspace], ".session/awaiting_transfer.json")
               /\ ws[sessions[sid].workspace].transfer.status = "pending"
               /\ ws[sessions[sid].workspace].transfer.from_session_id = from
               => /\ ws'[sessions[sid].workspace].transfer.status = "received"
                  /\ ws'[sessions[sid].workspace].transfer.from_session_id = from
                  /\ req'[r].op = "receive" /\ req'[r].pc = "exec"
       /\ \A r \in Slots, stem \in Handles \cup {NoHandle} :
            /\ ReceiveExecDone(r, "ok", stem)
            /\ ws[req[r].sid].transfer.from_session_id = req[r].from
            => /\ resp'.code = 200
               /\ sessions'[req[r].sid].parent_session = req[r].from
               /\ sessions'[req[r].sid].knowledge_received
               /\ disk'[req[r].sid] = sessions'[req[r].sid]]_vars

\* the fork has answered a delivery from its parent: its transfer record is
\* received and its record names the parent
C18_Witness ==
    /\ resp.op = "receive" /\ resp.code = 200
    /\ resp.sid \in DOMAIN sessions
    /\ ws[resp.sid].transfer.status = "received"
    /\ ws[resp.sid].transfer.from_session_id = resp.from
    /\ sessions[resp.sid].parent_session = resp.from
    /\ sessions[resp.sid].knowledge_received

\* C19: the knowledge excerpt stored on a record is at most 500 characters
\* long, whatever the length of the text delivered, and is the text itself
\* when that has at most 500 characters.
C19_ExcerptAtMost500 ==
    /\ \A s \in DOMAIN sessions : Len(sessions[s].knowledge_transfer) <= 500
    /\ resp.op = "receive" /\ resp.code = 200 /\ Len(resp.knowledge) <= 500
       => sessions[resp.sid].knowledge_transfer = resp.knowledge

\* C20: a transfer record goes from pending to received once: a record that
\* is received is not written again by any later step, and a record that
\* is pending stays pending or becomes received.
C20_TransferReceivedOnce ==
    [][\A s \in DOMAIN ws :
         /\ ws[s].transfer.status = "received" => ws'[s].transfer = ws[s].transfer
         /\ ws[s].transfer.status = "pending" =>
               /\ ws'[s].transfer.status \in {"pending", "received"}
               /\ ws'[s].transfer.from_session_id = ws[s].transfer.from_session_id]_vars

\* C21: an archive of a session leaves its status archived, whatever it was,
\* and changes no field of the record but status and archived_at; applied to
\* a record that is archived already it changes nothing but archived_at, so
\* any number of archives leaves what the first one left.
C21_ArchiveIdempotent ==
    [][resp'.op = "archive" =>
       \A r \in Slots, sid \in {resp'.sid} :
          ArchiveSession(r, sid) /\ sid \in DOMAIN sessions =>
             /\ sessions'[sid].status = "archived"
             /\ disk'[sid].status = "archived"
             /\ \A f \in DOMAIN sessions[sid] \ {"status", "archived_at"} :
                   sessions'[sid][f] = sessions[sid][f]
             /\ sessions[sid].status = "archived" =>
                   \A f \in DOMAIN sessions[sid] \ {"archived_at"} :
                      sessions'[sid][f] = sessions[sid][f]]_vars

\* session 1 was archived twice and nothing else was asked: the clock was
\* read at 3 and at 4, and the second reading is the one the record holds
C21_Witness ==
    /\ resp.op = "archive" /\ resp.sid = 1 /\ nops = 2
    /\ DOMAIN sessions = {1}
    /\ sessions[1].status = "archived"
    /\ sessions[1].archived_at = 4 /\ now = 5
    /\ sessions[1].last_accessed = sessions[1].created_at
    /\ sessions[1].participants = <<>>
    /\ sessions[1].tags = <<"x">>

\* C22: a create adds a record with status active, message_count 0, no
\* handle and no participants under a fresh identifier, with its workspace,
\* and the document holds it before the run of an initial prompt starts;
\* when that run fails, the record is still in the store, in memory and in
\* the document, as it was, and the response carries the error with code 200.
C22_CreateBeforeInitialTurn ==
    [][/\ nextId' # nextId =>
            \A r \in Slots, shared \in BOOLEAN, prompt \in BOOLEAN :
               CreateSession(r, "T", "", shared, <<"x">>, prompt) =>
                  /\ nextId \notin DOMAIN sessions
                  /\ nextId \in DOMAIN sessions'
                  /\ sessions'[nextId].status = "active"
                  /\ sessions'[nextId].message_count = 0
                  /\ sessions'[nextId].claude_session_id = NoHandle
                  /\ sessions'[nextId].participants = <<>>
                  /\ disk'[nextId] = sessions'[nextId]
                  /\ ws'[nextId].exists
                  /\ IF prompt
                     THEN req'[r].pc = "exec" /\ req'[r].sid = nextId
                          /\ req'[r].resume = NoHandle
                     ELSE resp'.code = 200 /\ resp'.sid = nextId /\ ~resp'.error
       /\ \A r \in Slots, out \in {"spawn_error", "nonzero"}, stem \in StemsOf :
            CreateExecDone(r, out, stem) =>
               /\ req[r].sid \in DOMAIN sessions'
               /\ req[r].sid \in DOMAIN disk'
               /\ sessions' = sessions /\ disk' = disk
               /\ resp'.op = "create" /\ resp'.sid = req[r].sid
               /\ resp'.code = 200 /\ resp'.error]_vars

\* a create whose initial prompt failed and that nothing else touched: the
\* record is active with no message counted, and the document holds it
C22_Witness ==
    /\ resp.op = "create" /\ resp.code = 200 /\ resp.error
    /\ resp.sid \in DOMAIN sessions
    /\ sessions[resp.sid].status = "active"
    /\ sessions[resp.sid].message_count = 0
    /\ disk[resp.sid] = sessions[resp.sid]

\* C23: the executor never raises to its caller: whatever the outcome of the
\* child, its caller gets a result, with success false and the diagnostic
\* when the child exits non-zero or the spawn throws, and with success true
\* and the output only when the child exits 0.  So a create and a clone
\* answer 200 with the error next to their record, a send and a
\* receive_knowledge answer 500 of their own making, and only a run that
\* exited 0 is counted on a record.
C23_ExecutorNeverRaises ==
    [][\A r \in Slots :
          req[r].pc = "exec" /\ req'[r].pc # "exec" =>
          \A out \in Outcomes, stem \in StemsOf :
             (\/ CreateExecDone(r, out, stem) \/ SendExecDone(r, out, stem)
              \/ CloneExecDone(r, out, stem) \/ ReceiveExecDone(r, out, stem)) =>
                LET res == execute_claude_result(out) IN
                /\ ~res.raised
                /\ res.success = (out = "ok")
                /\ res.success = res.response
                /\ res.error = ~res.success
                /\ ~res.success =>
                      /\ req[r].sid \in DOMAIN sessions =>
                            sessions'[req[r].sid] = sessions[req[r].sid]
                      /\ disk' = disk
                      /\ runs_ok' = runs_ok
                      /\ resp'.op = req[r].op /\ resp'.error
                      /\ resp'.code =
                            IF req[r].op \in {"create", "clone"} THEN 200 ELSE 500
                /\ res.success =>
                      /\ req'[r].pc = "idle" => resp'.code = 200 /\ ~resp'.error
                      /\ req[r].sid \in DOMAIN sessions =>
                            runs_ok'[req[r].sid] = runs_ok[req[r].sid] + 1]_vars

\* a clone whose fork instruction failed answered 200 with the error
C23_Witness ==
    /\ resp.op = "clone" /\ resp.code = 200 /\ resp.error
    /\ resp.child \in DOMAIN sessions
    /\ sessions[resp.child].fork_instruction_sent = "false"

\* C24: the run a send starts resumes the conversation whose handle the
\* record holds when the run starts, and starts a new conversation when the
\* record holds none; the run of a create's initial prompt and the run of a
\* receive_knowledge never resume (a resume of NoHandle is no resume flag).
C24_ResumeOnlyForSend ==
    [][\A r \in Slots :
          req[r].pc = "idle" /\ req'[r].pc = "exec" =>
             /\ \A sid \in {req'[r].sid}, p \in Participants :
                   SendMessage(r, sid, p) =>
                      /\ req'[r].resume = sessions[sid].claude_session_id
                      /\ req'[r].resume = sessions'[sid].claude_session_id
             /\ \A shared \in BOOLEAN :
                   CreateSession(r, "T", "", shared, <<"x">>, TRUE) =>
                      req'[r].resume = NoHandle
             /\ \A sid \in {req'[r].sid}, from \in {req'[r].from},
                   k \in {req'[r].knowledge} :
                   ReceiveKnowledge(r, sid, from, k) =>
                      req'[r].resume = NoHandle]_vars

\* a send is running on the conversation whose handle its record holds: the
\* handle an earlier run left there
C24_Witness ==
    \E r \in Slots :
       /\ req[r].op = "send" /\ req[r].pc = "exec"
       /\ req[r].resume \in Handles
       /\ req[r].resume = sessions[req[r].sid].claude_session_id
       /\ sessions[req[r].sid].message_count = 1

\* C25: the history of a session the store holds, asked for while the
\* external tool's project directory holds no log of it, is answered with
\* success and an empty history.
C25_EmptyHistoryIsSuccess ==
    (/\ resp.op = "history"
     /\ resp.sid \in DOMAIN sessions
     /\ newest[sessions[resp.sid].workspace] = NoHandle)
    => resp.code = 200 /\ resp.body = <<>>

\* C26: a clone naming a source the store does not hold answers 404 and
\* leaves everything as it was: no new record in memory or in the document,
\* no new workspace, no identifier used, no child process started.
C26_CloneUnknownSource ==
    [][resp'.op = "clone" =>
       \A r \in Slots, sid \in {resp'.sid} :
          CloneSession(r, sid, "B-fork") /\ sid \notin DOMAIN sessions =>
             /\ resp'.code = 404
             /\ sessions' = sessions /\ disk' = disk
             /\ ws' = ws
             /\ nextId' = nextId
             /\ req' = req
             /\ runs_ok' = runs_ok]_vars

\* a clone of an unknown source was refused while the store held a session
\* and had identifiers left
C26_Witness ==
    /\ resp.op = "clone" /\ resp.code = 404
    /\ resp.sid \notin DOMAIN sessions
    /\ DOMAIN sessions # {}
    /\ nextId <= MaxSessions
    /\ \A i \in Ids \ DOMAIN sessions : ~ws[i].exists

\* connection c is in the distribution list of key
Listed(conns, key, c) == key \in DOMAIN conns /\ InSeq(conns[key], c)

C29_PersistNotifyRespond ==
    [][\A r \in Slots :
          /\ \A stem \in StemsOf :
                (req[r].pc = "exec" /\ SendExecDone(r, "ok", stem)) =>
                   LET sid == req[r].sid IN
                   /\ disk'[sid] = sessions'[sid]
                   /\ disk'[sid].message_count = sessions[sid].message_count + 1
                   /\ disk'[sid].last_accessed = now
                   /\ IF req'[r].pc = "send_ws"
                      THEN req'[r].notified = <<>>
                      ELSE resp'.op = "send" /\ resp'.notified = <<>>
          /\ (req[r].pc = "send_ws" /\ NotifyDelivered(r, TRUE)) =>
                LET sid == req[r].sid
                    after == IF req'[r].pc = "send_ws" THEN req'[r] ELSE resp'
                IN
                /\ disk[sid].message_count >= req[r].base + 1
                /\ disk[sid].last_accessed > sessions[sid].created_at
                /\ after.notified = Append(req[r].notified, req[r].cur)
                /\ resp' # resp => (resp'.op = "send" /\ resp'.code = 200)]_vars

\* a send answered after its notification reached an observer, with the
\* counted message in the document
C29_Witness ==
    /\ resp.op = "send" /\ resp.code = 200
    /\ resp.notified # <<>>
    /\ disk[resp.sid].message_count = resp.base + 1
    /\ disk[resp.sid] = sessions[resp.sid]

\* the names on a record's participant list
ParticipantNames(s) == [i \in 1..Len(s.participants) |-> s.participants[i].name]

\* C30: whatever sends arrive and however they overlap, no name is twice on
\* a record's participant list; a send on a session that is not shared
\* leaves the list as it is, and the list changes only by a send on a shared
\* session appending one entry.
C30_ParticipantsOnce ==
    [][/\ \A s \in DOMAIN sessions', p \in Participants :
            Occurrences(ParticipantNames(sessions'[s]), p) <= 1
       /\ \A r \in Slots, sid \in DOMAIN sessions, p \in Participants :
            (~sessions[sid].shared /\ SendMessage(r, sid, p)) =>
               sessions'[sid].participants = sessions[sid].participants
       /\ \A s \in DOMAIN sessions :
            sessions'[s].participants # sessions[s].participants =>
               /\ sessions[s].shared
               /\ Len(sessions'[s].participants) = Len(sessions[s].participants) + 1
               /\ \E r \in Slots : req'[r].op = "send" /\ req'[r].sid = s
                                   /\ req[r].pc = "idle"]_vars

\* two sends by the same participant overlap on a shared session, and the
\* participant is on the list once
C30_Witness ==
    \E s \in DOMAIN sessions :
       /\ sessions[s].shared
       /\ ParticipantNames(sessions[s]) = <<"anonymous">>
       /\ \A r \in Slots :
             req[r].op = "send" /\ req[r].pc = "exec" /\ req[r].sid = s

\* identifiers the first service has handed out and deleted since
V1Deleted(ss, next) == (1..(next - 1)) \ DOMAIN ss

\* C28: in the first service the identifiers get succeeds for are those of
\* the sessions created and not yet deleted: an identifier enters the dict
\* only as the fresh one of a create and leaves it only in its delete, for
\* good; get answers 200 with the record exactly for the identifiers in the
\* dict; list returns exactly their records, each once, with their number as
\* count; a deleted identifier is answered 404 by get, send and delete and
\* has no workspace directory; a delete of a session succeeds and removes
\* the record whether the workspace directory is there or not.
C28_V1StoreTracksCreatesAndDeletes ==
    [][/\ \A i \in Ids :
            /\ (i \in DOMAIN sessions' /\ i \notin DOMAIN sessions) =>
                  /\ i = nextId
                  /\ \E r \in Slots, prompt \in BOOLEAN :
                        V1CreateSession(r, "T", prompt)
            /\ (i \in DOMAIN sessions /\ i \notin DOMAIN sessions') =>
                  \E r \in Slots : V1DeleteSession(r, i)
            /\ i \in V1Deleted(sessions', nextId') => ~ws'[i].exists
       /\ \A r \in Slots, prompt \in BOOLEAN :
            V1CreateSession(r, "T", prompt) =>
               DOMAIN sessions' = DOMAIN sessions \cup {nextId}
       /\ \A r \in Slots, sid \in V1Targets :
            /\ V1GetSession(r, sid) =>
                  IF sid \in DOMAIN sessions
                  THEN resp'.code = 200 /\ resp'.body = <<sessions[sid]>>
                  ELSE resp'.code = 404
            /\ (V1SendMessage(r, sid) /\ sid \notin DOMAIN sessions) =>
                  resp'.code = 404 /\ req' = req /\ ws' = ws
            /\ V1DeleteSession(r, sid) =>
                  IF sid \in DOMAIN sessions
                  THEN /\ resp'.code = 200
                       /\ DOMAIN sessions' = DOMAIN sessions \ {sid}
                       /\ ~ws'[sid].exists
                  ELSE resp'.code = 404 /\ sessions' = sessions /\ ws' = ws
       /\ \A r \in Slots :
            V1ListSessions(r) =>
               /\ Records(resp'.body) = {sessions[s] : s \in DOMAIN sessions}
               /\ Len(resp'.body) = Cardinality(DOMAIN sessions)
               /\ resp'.count = Cardinality(DOMAIN sessions)]_vars

\* a session was created and deleted, and a get of its identifier was
\* answered 404 afterwards; its workspace is gone
C28_Witness ==
    /\ resp.op = "get" /\ resp.code = 404
    /\ resp.sid \in V1Deleted(sessions, nextId)
    /\ ~ws[resp.sid].exists

\* C31: whenever no request handler is in flight, the metadata document
\* equals the in-memory mapping: every operation has saved the store after
\* the last change it made to a record.
C31_QuiescentDocumentEqualsMemory ==
    (\A r \in Slots : req[r].pc = "idle") => disk = sessions

\* the handlers whose send on session s is running a child started without
\* a resume handle
FreshSends(s) ==
    {r \in Slots : /\ req[r].op = "send" /\ req[r].pc = "exec"
                   /\ req[r].sid = s /\ req[r].spawned
                   /\ req[r].resume = NoHandle}

\* C32: of the runs sends start on one session, at most one starts a new
\* conversation: no two sends on a session are running children that were
\* both started without a resume handle.
C32_OneFreshConversation ==
    \A s \in DOMAIN sessions : Cardinality(FreshSends(s)) <= 1

\* C33: when a delivery of a notification fails, the key of the session is
\* still in active_connections and the connection is still in its list, so
\* the except branch removes it without raising, and a send that returns
\* from it answers 200, whatever observers disconnected while the delivery
\* was suspended.
C33_NotifySurvivesDisconnect ==
    [][\A r \in Slots :
          (req[r].pc = "send_ws" /\ NotifyDelivered(r, FALSE)) =>
             /\ req[r].sid \in DOMAIN active_connections
             /\ InSeq(active_connections[req[r].sid], req[r].cur)
             /\ resp' # resp => resp'.code = 200]_vars

\* a receive_knowledge on session s is between its acceptance and its return
Receiving(s) ==
    \E r \in Slots : req[r].op = "receive" /\ req[r].pc = "exec" /\ req[r].sid = s

\* C34: whenever the transfer record in a session's workspace says received
\* and no receive_knowledge on that session is still running, the session's
\* record has knowledge_received true and names the transfer record's source
\* as parent_session.
C34_ReceivedMeansRecorded ==
    \A s \in DOMAIN sessions :
       (Holds(ws[sessions[s].workspace], ".session/awaiting_transfer.json")
        /\ ws[sessions[s].workspace].transfer.status = "received"
        /\ ~Receiving(s)) =>
          /\ sessions[s].knowledge_received
          /\ sessions[s].parent_session =
                ws[sessions[s].workspace].transfer.from_session_id

\* C35: a record that names a parent_session belongs to a session made by
\* clone, and the parent it names is the source the transfer record in its
\* workspace names.
C35_ParentIsCloneSource ==
    \A s \in DOMAIN sessions :
       sessions[s].parent_session # NoId =>
          /\ Holds(ws[sessions[s].workspace], ".session/awaiting_transfer.json")
          /\ sessions[s].parent_session =
                ws[sessions[s].workspace].transfer.from_session_id

\* C36: no send on an archived session whose workspace is there is answered
\* without a run: no request is refused in one step there. When the run of a
\* send exits 0 on a session that is archived by then, archived before the
\* send or during its run, the send answers 200, message_count is one more,
\* last_accessed is the time of the exit, and the status is still archived.
C36_SendIgnoresStatus ==
    [][/\ (nops' # nops /\ req' = req /\ ws' = ws /\ resp'.op = "send") =>
             ~(/\ resp'.sid \in DOMAIN sessions
               /\ sessions[resp'.sid].status = "archived"
               /\ ws[sessions[resp'.sid].workspace].exists)
       /\ \A r \in Slots :
             (req[r].pc = "exec" /\ req[r].op = "send") =>
                \A stem \in StemsOf :
                   (/\ SendExecDone(r, "ok", stem)
                    /\ sessions[req[r].sid].status = "archived") =>
                      LET sid == req[r].sid IN
                      /\ sessions'[sid].message_count =
                            sessions[sid].message_count + 1
                      /\ sessions'[sid].last_accessed = now
                      /\ sessions'[sid].status = "archived"
                      /\ disk'[sid] = sessions'[sid]
                      /\ req'[r].pc = "idle" => resp'.code = 200]_vars

\* a send on an archived session answered 200 and was counted; the session
\* is still archived
C36_Witness ==
    /\ resp.op = "send" /\ resp.code = 200
    /\ sessions[resp.sid].status = "archived"
    /\ sessions[resp.sid].message_count = resp.base + 1
    /\ sessions[resp.sid].last_accessed > sessions[resp.sid].archived_at


\* C37: the step of a clone that makes the child gives it message_count 0
\* and no participants and changes no other record. When the clone's run
\* against the parent exits, the clone answers 200 with the child whatever
\* the exit; the child's counter and participants are as they were; after an
\* exit of 0 the parent has one more message, last_accessed at the time of
\* the exit, a handle it already had kept, and every other field, name,
\* description, tags, shared and status among them, as before; after any
\* other exit the parent's record is as before.
C37_CloneFrame ==
    [][/\ nextId' # nextId =>
             /\ sessions'[nextId].message_count = 0
             /\ sessions'[nextId].participants = <<>>
             /\ \A s \in DOMAIN sessions : sessions'[s] = sessions[s]
       /\ \A r \in Slots :
             (req[r].op = "clone" /\ req[r].pc = "exec") =>
                \A out \in Outcomes, stem \in StemsOf :
                   CloneExecDone(r, out, stem) =>
                      LET sid == req[r].sid
                          child == req[r].child
                          before == sessions[sid]
                          after == sessions'[sid]
                      IN
                      /\ resp'.op = "clone" /\ resp'.code = 200
                      /\ resp'.child = child
                      /\ sessions'[child].message_count =
                            sessions[child].message_count
                      /\ sessions'[child].participants =
                            sessions[child].participants
                      /\ out # "ok" => after = before
                      /\ out = "ok" =>
                            /\ after.message_count = before.message_count + 1
                            /\ after.last_accessed = now
                            /\ before.claude_session_id # NoHandle =>
                                  after.claude_session_id =
                                     before.claude_session_id
                            /\ [after EXCEPT
                                   !.message_count = before.message_count,
                                   !.last_accessed = before.last_accessed,
                                   !.claude_session_id =
                                       before.claude_session_id] = before]_vars

\* a clone made in this run answered 200 after its fork instruction failed:
\* the child has no messages and no participants
C37_Witness ==
    /\ resp.op = "clone" /\ resp.code = 200 /\ resp.error
    /\ nextId > resp.child /\ resp.child > 2
    /\ sessions[resp.child].message_count = 0
    /\ sessions[resp.child].participants = <<>>
    /\ sessions[resp.sid].message_count = resp.base


\* C38: a listing asked with a tag returns exactly the records whose tags
\* hold it, each once, whatever their status and whatever active_only is.
C38_TagListingIgnoresStatus ==
    [][\A r \in Slots, a \in BOOLEAN :
          ListSessions(r, a, "x") =>
             /\ Records(resp'.body) =
                   {sessions[s] : s \in {i \in DOMAIN sessions :
                                           InSeq(sessions[i].tags, "x")}}
             /\ Len(resp'.body) = Cardinality(Records(resp'.body))
             /\ resp'.count = Len(resp'.body)]_vars

\* a listing by tag with active_only set returned an archived record
C38_Witness ==
    /\ resp.op = "list" /\ resp.active_only /\ resp.tag = "x"
    /\ resp.count = 1
    /\ \E i \in 1..Len(resp.body) : resp.body[i].status = "archived"


\* handler r has been accepted and has not returned
Suspended(r) == req[r].pc # "idle"

\* C39: when every child exits, every handler that started a run returns;
\* and a handler waiting for its child leaves that wait only in the step in
\* which the child exits (there is no timeout), whatever other handlers do.
C39_ReturnsWhenChildExits ==
    /\ \A r \in Slots : Suspended(r) ~> ~Suspended(r)
    /\ [][\A r \in Slots :
             (req[r].pc = "exec" /\ req'[r].pc # "exec") => Resumed(r)]_vars

\* a run has been answered while another handler still waits for its child
C39_Witness ==
    /\ resp.op \in {"create", "send", "clone", "receive"}
    /\ resp.spawned /\ resp.code \in {200, 500}
    /\ \E r \in Slots : req[r].pc = "exec" /\ req[r].spawned
    /\ nops = MaxOps

====
